---- MODULE Spec2Model ----
(***************************************************************************)
(* Model of rlife: Conway's Game of Life on a fixed-size grid (lib.rs)     *)
(* advanced by a simulation thread (sim_task, main.rs) while the main      *)
(* thread edits cells, renders frames, toggles pause/resume over an mpsc   *)
(* channel and finally drops the sender and joins the simulation thread.   *)
(***************************************************************************)
EXTENDS Integers, FiniteSets, Sequences, TLC

(***************************************************************************)
(* Bounds of the model.                                                    *)
(***************************************************************************)
\* const generic W of LifeGrid<W, H> (main.rs instantiates it with 64)
W == 2
\* const generic H of LifeGrid<W, H> (main.rs instantiates it with 36)
H == 2
\* most toggle signals queued in the channel at once (mpsc is unbounded)
MaxChan == 2
\* the clock readings saturate after this many step intervals
Intervals == 2
\* width and height of the grids the Life trait is applied to on its own
LW == 3
LH == 3
\* largest width and height of the grids a blinker is placed on
MaxBW == 7
MaxBH == 5
\* generations a blinker is followed for
MaxGen == 4

\* main.rs:14, in milliseconds
SIM_STEP_TIME == 300

\* the clock advances in half step intervals
TickMs == SIM_STEP_TIME \div 2
MaxElapsed == Intervals * SIM_STEP_TIME

Min(a, b) == IF a <= b THEN a ELSE b
Max(a, b) == IF a >= b THEN a ELSE b
Abs(a) == IF a >= 0 THEN a ELSE 0 - a

(***************************************************************************)
(* lib.rs: LifeGrid and the Life trait.  A grid is data[y][x], H rows of   *)
(* W cells, as in `data: [[bool; W]; H]`.                                   *)
(***************************************************************************)
Grids(w, h) == [0 .. h - 1 -> [0 .. w - 1 -> BOOLEAN]]

\* LifeGrid::default
DefaultGrid(w, h) == [y \in 0 .. h - 1 |-> [x \in 0 .. w - 1 |-> FALSE]]

\* LifeGrid::height: the number of rows
height(g) == Cardinality(DOMAIN g)

\* LifeGrid::width: the length of a row
width(g) == Cardinality(DOMAIN g[0])

\* slice::get / get_mut: Some exactly for an index below the length
InSlice(s, i) == i \in DOMAIN s

\* LifeGrid::is_alive
is_alive(g, x, y) ==
    IF InSlice(g, y)
    THEN IF InSlice(g[y], x) THEN g[y][x] ELSE FALSE
    ELSE FALSE

set_cell_wrapping(g, x, y, v) == [g EXCEPT ![y % height(g)][x % width(g)] = v]

\* LifeGrid::set_cell
set_cell(g, x, y, v) ==
    IF InSlice(g, y)
    THEN IF InSlice(g[y], x) THEN [g EXCEPT ![y][x] = v] ELSE g
    ELSE g

wrapping_sub1(v) == IF v = 0 THEN 2147483647 ELSE v - 1

\* usize::saturating_sub(1)
saturating_sub1(v) == IF v = 0 THEN 0 ELSE v - 1

\* the closure `range` of number_of_neighbors
range(v) == saturating_sub1(v) .. (v + 1)

number_of_neighbors_with_self(g, x, y) ==
    Cardinality({p \in range(x) \X range(y) : is_alive(g, p[1], p[2])})

\* Life::number_of_neighbors
number_of_neighbors(g, x, y) ==
    Cardinality({p \in range(x) \X range(y) :
                    /\ ~(p[1] = x /\ p[2] = y)
                    /\ is_alive(g, p[1], p[2])})

rule_on_updated(self, other, x, y) ==
    LET mixed == [b \in DOMAIN self |-> [a \in DOMAIN self[b] |->
                     IF a * height(self) + b < x * height(self) + y
                     THEN other[b][a] ELSE self[b][a]]]
        n == number_of_neighbors(mixed, x, y)
    IN  IF n = 3 THEN set_cell(other, x, y, TRUE)
        ELSE IF n = 2 THEN set_cell(other, x, y, is_alive(self, x, y))
        ELSE set_cell(other, x, y, FALSE)

rule_live_only(self, other, x, y) ==
    LET n == number_of_neighbors(self, x, y)
    IN  IF n = 3 \/ (n = 2 /\ is_alive(self, x, y))
        THEN set_cell(other, x, y, TRUE)
        ELSE other

\* the match of next_generation, applied to one cell
rule(self, other, x, y) ==
    LET n == number_of_neighbors(self, x, y)
    IN  IF n = 3 THEN set_cell(other, x, y, TRUE)
        ELSE IF n = 2 THEN set_cell(other, x, y, is_alive(self, x, y))
        ELSE set_cell(other, x, y, FALSE)

\* the for_each of next_generation from the i-th pair of the cartesian
\* product on: x is the outer iterator, y the inner one; `stepped` is
\* `other` after the closure has run on the i-th pair
RECURSIVE next_generation_from(_, _, _)
next_generation_from(self, other, i) ==
    IF i >= width(self) * height(self)
    THEN other
    ELSE CHOOSE done \in
             {next_generation_from(self, stepped, i + 1) :
                 stepped \in {rule(self, other, i \div height(self), i % height(self))}} :
             TRUE

\* Life::next_generation: the contents of `other` afterwards
next_generation(self, other) == next_generation_from(self, other, 0)

(***************************************************************************)
(* State.                                                                  *)
(***************************************************************************)
VARIABLES
    grid,          \* contents of the shared Arc<RwLock<Box<T>>>
    scratch_grid,  \* sim_task's private Box<T>
    readers,       \* threads holding a read guard of the RwLock
    writers,       \* threads holding the write guard of the RwLock
    poisoned,      \* the RwLock's poison flag
    pause_chan,    \* number of () messages queued in the channel
    pause_tx,      \* TRUE while the Sender is alive
    elapsed,       \* last_update.elapsed(), saturated at MaxElapsed
    spc,           \* where the simulation thread is
    mpc,           \* where the main thread is
    snap,          \* history: the grid as the running step read it
    window_edit,   \* history: the edit applied since the running step read
    lost_edit,     \* history: the last swap overwrote the window edit
    sent_odd,      \* history: an odd number of signals has been sent
    inflight,      \* history: a step was in flight when the last signal was sent
    to_paused,     \* history: the last signal was a resume sent to a Paused scheduler
    since_signal,  \* history: time since that signal, saturated at one interval
    swaps,         \* history: swaps since that signal, saturated at 2
    since_swap,    \* history: time since the last swap, or since the start,
                   \* saturated at one interval
    consumed_odd,  \* history: an odd number of signals has been received
    early_edit,    \* history: the last edit applied outside the span from a
                   \* step's read to its swap, since the last swap
    at_close,      \* history: the scheduler and the queue when the sender dropped
    buffer,        \* main's frame buffer, each entry in units of u32::MAX
    mouse,         \* the cells the pointer reaches in this run
    g,             \* the grid an operation of lib.rs is applied to
    op             \* the last operation applied to g: its name and arguments,
                   \* `before` the grid written to as it was, `result` what
                   \* is_alive returned, `counts` what number_of_neighbors
                   \* returned cell by cell, `count` the generations computed,
                   \* `other` the second grid afterwards

vars == <<grid, scratch_grid, readers, writers, poisoned, pause_chan, pause_tx,
          elapsed, spc, mpc, snap, window_edit, lost_edit, sent_odd, inflight,
          to_paused, since_signal, swaps, since_swap, consumed_odd, early_edit,
          at_close, buffer, mouse, g, op>>

lockvars == <<readers, writers, poisoned>>
chanvars == <<pause_chan, pause_tx>>
sigvars == <<sent_odd, inflight, to_paused, since_signal, swaps, since_swap,
             consumed_odd>>
editvars == <<window_edit, lost_edit, early_edit>>
libvars == <<at_close, buffer, mouse, g, op>>

SIM == "sim"
MAIN == "main"

NoEdit == [x |-> 0, y |-> 0, v |-> FALSE, some |-> FALSE]
NotClosed == [state |-> "none", queued |-> 0]
NoOp == [name |-> "none", x |-> 0, y |-> 0, v |-> FALSE,
         before |-> DefaultGrid(W, H), result |-> FALSE, count |-> 0,
         counts |-> << >>, other |-> DefaultGrid(W, H)]

\* positions of sim_task between the start of a step and its swap
InFlight == {"read", "gen", "write", "swap"}
\* the scheduler states of the specification
Running == {"poll", "read", "gen", "write", "swap", "stamp"}
Paused == {"recv"}
Stopped == {"done"}

\* cells the mouse can point at (get_mouse_pos with MouseMode::Discard)
MousePos == {<<0, 0>>, <<1, 0>>, <<0, 1>>}
\* the same for a pointer that stays on one cell
MouseStill == {<<0, 0>>}

InitSys ==
    /\ grid = DefaultGrid(W, H)
    /\ scratch_grid = DefaultGrid(W, H)
    /\ readers = {}
    /\ writers = {}
    /\ poisoned = FALSE
    /\ pause_chan = 0
    /\ pause_tx = TRUE
    /\ elapsed = 0
    /\ spc = "poll"
    /\ mpc = "top"
    /\ snap = DefaultGrid(W, H)
    /\ window_edit = NoEdit
    /\ lost_edit = FALSE
    /\ sent_odd = FALSE
    /\ inflight = FALSE
    /\ to_paused = FALSE
    /\ since_signal = 0
    /\ swaps = 0
    /\ since_swap = 0
    /\ consumed_odd = FALSE
    /\ early_edit = NoEdit
    /\ at_close = NotClosed
    /\ buffer = [i \in 0 .. W * H - 1 |-> 0]

\* main.rs:76-96: both grids all dead, the channel open and empty, the
\* simulation thread at the top of its loop
Init ==
    /\ InitSys
    /\ mouse = MousePos
    /\ g = DefaultGrid(W, H)
    /\ op = NoOp

\* the same start with the pointer kept on one cell
InitStill ==
    /\ InitSys
    /\ mouse = MouseStill
    /\ g = DefaultGrid(W, H)
    /\ op = NoOp

(***************************************************************************)
(* std::sync::RwLock: read() and write() with .expect("Poisoned").         *)
(***************************************************************************)
Expect_IgnoringPoison == TRUE

\* .expect("Poisoned") returns the guard
ExpectOk == ~poisoned

\* read() is granted
CanRead(t) == writers = {}

CanWrite_IgnoringReaders(t) == writers = {}

\* write() is granted
CanWrite(t) == readers = {} /\ writers = {}

(***************************************************************************)
(* The clock.                                                              *)
(***************************************************************************)
Tick ==
    /\ elapsed' = Min(elapsed + TickMs, MaxElapsed)
    /\ since_signal' = IF to_paused
                       THEN Min(since_signal + TickMs, SIM_STEP_TIME)
                       ELSE since_signal
    /\ since_swap' = Min(since_swap + TickMs, SIM_STEP_TIME)
    /\ UNCHANGED <<grid, scratch_grid, lockvars, chanvars, spc, mpc, snap,
                   editvars, sent_odd, inflight, to_paused, swaps, consumed_odd,
                   libvars>>

(***************************************************************************)
(* sim_task (main.rs:17-53).                                               *)
(***************************************************************************)
S_TryRecvOk_DrainsAll ==
    /\ spc = "poll"
    /\ pause_chan > 0
    /\ pause_chan' = 0
    /\ consumed_odd' = ~consumed_odd
    /\ spc' = "recv"
    /\ UNCHANGED <<grid, scratch_grid, lockvars, pause_tx, elapsed, mpc, snap,
                   editvars, sent_odd, inflight, to_paused, since_signal, swaps,
                   since_swap, libvars>>

\* try_recv() returns Ok(_): a signal is queued
S_TryRecvOk ==
    /\ spc = "poll"
    /\ pause_chan > 0
    /\ pause_chan' = pause_chan - 1
    /\ consumed_odd' = ~consumed_odd
    /\ spc' = "recv"
    /\ UNCHANGED <<grid, scratch_grid, lockvars, pause_tx, elapsed, mpc, snap,
                   editvars, sent_odd, inflight, to_paused, since_signal, swaps,
                   since_swap, libvars>>

\* recv() returns Ok(_)
S_RecvOk ==
    /\ spc = "recv"
    /\ pause_chan > 0
    /\ pause_chan' = pause_chan - 1
    /\ consumed_odd' = ~consumed_odd
    /\ spc' = "poll"
    /\ UNCHANGED <<grid, scratch_grid, lockvars, pause_tx, elapsed, mpc, snap,
                   editvars, sent_odd, inflight, to_paused, since_signal, swaps,
                   since_swap, libvars>>

S_RecvErr_BlocksForever == FALSE /\ UNCHANGED vars

\* recv() returns Err(RecvError): empty and disconnected; the result is dropped
S_RecvErr ==
    /\ spc = "recv"
    /\ pause_chan = 0
    /\ ~pause_tx
    /\ spc' = "poll"
    /\ UNCHANGED <<grid, scratch_grid, lockvars, chanvars, elapsed, mpc, snap,
                   editvars, sigvars, libvars>>

StepDue_AnyTime == 0 <= elapsed

\* the guard of the second arm
StepDue == SIM_STEP_TIME <= elapsed

S_BeginStep_TimeFirst ==
    /\ spc = "poll"
    /\ pause_tx
    /\ SIM_STEP_TIME <= elapsed
    /\ spc' = "read"
    /\ UNCHANGED <<grid, scratch_grid, lockvars, chanvars, elapsed, mpc, snap,
                   editvars, sigvars, libvars>>

S_BeginStep_AnyErr ==
    /\ spc = "poll"
    /\ pause_chan = 0
    /\ StepDue
    /\ spc' = "read"
    /\ UNCHANGED <<grid, scratch_grid, lockvars, chanvars, elapsed, mpc, snap,
                   editvars, sigvars, libvars>>

\* try_recv() returns Err(Empty) and the step is due
S_BeginStep ==
    /\ spc = "poll"
    /\ pause_chan = 0
    /\ pause_tx
    /\ StepDue
    /\ spc' = "read"
    /\ UNCHANGED <<grid, scratch_grid, lockvars, chanvars, elapsed, mpc, snap,
                   editvars, sigvars, libvars>>

\* try_recv() returns Err(Empty) and it is not time yet: the `_ => ()` arm
S_Idle ==
    /\ spc = "poll"
    /\ pause_chan = 0
    /\ pause_tx
    /\ ~StepDue
    /\ UNCHANGED vars

S_Disconnected_OnAnyErr ==
    /\ spc = "poll"
    /\ pause_chan = 0
    /\ spc' = "done"
    /\ UNCHANGED <<grid, scratch_grid, lockvars, chanvars, elapsed, mpc, snap,
                   editvars, sigvars, libvars>>

\* try_recv() returns Err(Disconnected)
S_Disconnected ==
    /\ spc = "poll"
    /\ pause_chan = 0
    /\ ~pause_tx
    /\ spc' = "done"
    /\ UNCHANGED <<grid, scratch_grid, lockvars, chanvars, elapsed, mpc, snap,
                   editvars, sigvars, libvars>>

\* grid.read().expect("Poisoned")
S_AcqRead ==
    /\ spc = "read"
    /\ ExpectOk
    /\ CanRead(SIM)
    /\ readers' = readers \cup {SIM}
    /\ spc' = "gen"
    /\ UNCHANGED <<grid, scratch_grid, writers, poisoned, chanvars, elapsed, mpc,
                   snap, editvars, sigvars, libvars>>

S_NextGeneration_KeepsGuard ==
    /\ spc = "gen"
    /\ scratch_grid' = next_generation(grid, scratch_grid)
    /\ snap' = grid
    /\ window_edit' = NoEdit
    /\ spc' = "write"
    /\ UNCHANGED <<grid, lockvars, chanvars, elapsed, mpc, lost_edit,
                   early_edit, sigvars, libvars>>

S_NextGeneration_Inverted ==
    /\ spc = "gen"
    /\ grid' = next_generation(scratch_grid, grid)
    /\ snap' = scratch_grid
    /\ window_edit' = NoEdit
    /\ readers' = readers \ {SIM}
    /\ spc' = "write"
    /\ UNCHANGED <<scratch_grid, writers, poisoned, chanvars, elapsed, mpc,
                   lost_edit, early_edit, sigvars, libvars>>

\* .next_generation(scratch_grid.as_mut()); the read guard drops with the statement
S_NextGeneration ==
    /\ spc = "gen"
    /\ scratch_grid' = next_generation(grid, scratch_grid)
    /\ snap' = grid
    /\ window_edit' = NoEdit
    /\ readers' = readers \ {SIM}
    /\ spc' = "write"
    /\ UNCHANGED <<grid, writers, poisoned, chanvars, elapsed, mpc, lost_edit,
                   early_edit, sigvars, libvars>>

\* grid.write().expect("Poisoned")
S_AcqWrite ==
    /\ spc = "write"
    /\ ExpectOk
    /\ CanWrite(SIM)
    /\ writers' = writers \cup {SIM}
    /\ spc' = "swap"
    /\ UNCHANGED <<grid, scratch_grid, readers, poisoned, chanvars, elapsed, mpc,
                   snap, editvars, sigvars, libvars>>

mem_copy(a, b) == <<b, b>>

\* std::mem::swap(a, b): the new contents <<a, b>>
mem_swap(a, b) == <<b, a>>

S_Swap_Recompute ==
    /\ spc = "swap"
    /\ grid' = next_generation(grid, scratch_grid)
    /\ scratch_grid' = grid
    /\ writers' = writers \ {SIM}
    /\ lost_edit' = (/\ window_edit.some
                     /\ is_alive(grid', window_edit.x, window_edit.y) # window_edit.v)
    /\ window_edit' = NoEdit
    /\ snap' = DefaultGrid(W, H)
    /\ swaps' = IF to_paused THEN Min(swaps + 1, 2) ELSE swaps
    /\ inflight' = FALSE
    /\ since_swap' = 0
    /\ early_edit' = NoEdit
    /\ spc' = "stamp"
    /\ UNCHANGED <<readers, poisoned, chanvars, elapsed, mpc, sent_odd,
                   to_paused, since_signal, consumed_odd, libvars>>

\* std::mem::swap(grid..., &mut scratch_grid); the write guard drops with the statement
S_Swap ==
    /\ spc = "swap"
    /\ grid' = mem_swap(grid, scratch_grid)[1]
    /\ scratch_grid' = mem_swap(grid, scratch_grid)[2]
    /\ writers' = writers \ {SIM}
    /\ lost_edit' = (/\ window_edit.some
                     /\ is_alive(grid', window_edit.x, window_edit.y) # window_edit.v)
    /\ window_edit' = NoEdit
    /\ snap' = DefaultGrid(W, H)
    /\ swaps' = IF to_paused THEN Min(swaps + 1, 2) ELSE swaps
    /\ inflight' = FALSE
    /\ since_swap' = 0
    /\ early_edit' = NoEdit
    /\ spc' = "stamp"
    /\ UNCHANGED <<readers, poisoned, chanvars, elapsed, mpc, sent_odd,
                   to_paused, since_signal, consumed_odd, libvars>>

S_Stamp_NoReset ==
    /\ spc = "stamp"
    /\ lost_edit' = FALSE
    /\ spc' = "poll"
    /\ UNCHANGED <<grid, scratch_grid, lockvars, chanvars, elapsed, mpc, snap,
                   window_edit, early_edit, sigvars, libvars>>

\* last_update = Instant::now()
S_Stamp ==
    /\ spc = "stamp"
    /\ elapsed' = 0
    /\ lost_edit' = FALSE
    /\ spc' = "poll"
    /\ UNCHANGED <<grid, scratch_grid, lockvars, chanvars, mpc, snap, window_edit,
                   early_edit, sigvars, libvars>>

(***************************************************************************)
(* main (main.rs:101-146).                                                 *)
(***************************************************************************)
\* the while condition is false: the window was closed or Escape is down
M_Exit ==
    /\ mpc = "top"
    /\ mpc' = "drop"
    /\ UNCHANGED <<grid, scratch_grid, lockvars, chanvars, elapsed, spc, snap,
                   editvars, sigvars, libvars>>

\* the Receiver is alive: sim_task has neither returned nor unwound
ReceiverAlive == spc \notin {"done", "failed", "panicked"}

\* Space was pressed: pause_tx.send(()).unwrap()
M_Send ==
    /\ mpc = "top"
    /\ ReceiverAlive
    /\ pause_chan < MaxChan
    /\ pause_chan' = pause_chan + 1
    /\ sent_odd' = ~sent_odd
    /\ inflight' = (spc \in InFlight)
    /\ to_paused' = (sent_odd /\ spc \in Paused /\ pause_chan = 0)
    /\ since_signal' = 0
    /\ swaps' = 0
    /\ mpc' = "mouse"
    /\ UNCHANGED <<grid, scratch_grid, lockvars, pause_tx, elapsed, spc, snap,
                   editvars, since_swap, consumed_odd, libvars>>

\* Space was not pressed
M_NoKey ==
    /\ mpc = "top"
    /\ mpc' = "mouse"
    /\ UNCHANGED <<grid, scratch_grid, lockvars, chanvars, elapsed, spc, snap,
                   editvars, sigvars, libvars>>

\* a mouse button is down over a cell: curr.write().expect("Poisoned")
M_AcqWrite ==
    /\ mpc = "mouse"
    /\ ExpectOk
    /\ CanWrite(MAIN)
    /\ writers' = writers \cup {MAIN}
    /\ mpc' = "edit"
    /\ UNCHANGED <<grid, scratch_grid, readers, poisoned, chanvars, elapsed, spc,
                   snap, editvars, sigvars, libvars>>

\* .set_cell(x, y, true) for the left button, false for the right one; the
\* write guard drops with the statement
M_SetCell ==
    /\ mpc = "edit"
    /\ \E p \in mouse, v \in BOOLEAN :
          /\ grid' = set_cell(grid, p[1], p[2], v)
          /\ window_edit' = IF spc \in {"write", "swap"}
                            THEN [x |-> p[1], y |-> p[2], v |-> v, some |-> TRUE]
                            ELSE window_edit
          /\ early_edit' = IF spc \notin {"write", "swap"}
                           THEN [x |-> p[1], y |-> p[2], v |-> v, some |-> TRUE]
                           ELSE IF early_edit.x = p[1] /\ early_edit.y = p[2]
                           THEN NoEdit
                           ELSE early_edit
    /\ writers' = writers \ {MAIN}
    /\ mpc' = "render"
    /\ UNCHANGED <<scratch_grid, readers, poisoned, chanvars, elapsed, spc, snap,
                   lost_edit, sigvars, libvars>>

\* let curr = curr.read().expect("poisoned"), after an edit or without one
M_AcqRead ==
    /\ mpc \in {"mouse", "render"}
    /\ ExpectOk
    /\ CanRead(MAIN)
    /\ readers' = readers \cup {MAIN}
    /\ mpc' = "frame"
    /\ UNCHANGED <<grid, scratch_grid, writers, poisoned, chanvars, elapsed, spc,
                   snap, editvars, sigvars, libvars>>

flat_map_by_column(a) == [i \in 0 .. width(a) * height(a) - 1 |->
                             a[i % height(a)][i \div height(a)]]

\* curr.iter().flat_map(|row| row.iter()): the cells row after row
flat_map(a) == [i \in 0 .. width(a) * height(a) - 1 |->
                   a[i \div width(a)][i % width(a)]]

\* `*is_alive as u32`, the factor of u32::MAX in the pixel
as_u32(b) == IF b THEN 1 ELSE 0

\* buffer.iter_mut().zip(life_it).for_each(...): zip stops at the shorter one
zip_for_each(buf, it) ==
    [i \in DOMAIN buf |-> IF i \in DOMAIN it THEN as_u32(it[i]) ELSE buf[i]]

\* the frame is drawn and shown; the read guard drops at the end of the body
M_Frame ==
    /\ mpc = "frame"
    /\ buffer' = zip_for_each(buffer, flat_map(grid))
    /\ readers' = readers \ {MAIN}
    /\ mpc' = "top"
    /\ UNCHANGED <<grid, scratch_grid, writers, poisoned, chanvars, elapsed, spc,
                   snap, editvars, sigvars, at_close, mouse, g, op>>

\* drop(pause_tx)
M_Drop ==
    /\ mpc = "drop"
    /\ pause_tx' = FALSE
    /\ at_close' = [state |-> spc, queued |-> pause_chan]
    /\ mpc' = "join"
    /\ UNCHANGED <<grid, scratch_grid, lockvars, pause_chan, elapsed, spc, snap,
                   editvars, sigvars, buffer, mouse, g, op>>

Joined_NoWait == TRUE

\* JoinHandle::join returns
Joined == spc \in Stopped

\* life_sim_thread.join().unwrap(), then main returns
M_Join ==
    /\ mpc = "join"
    /\ Joined
    /\ mpc' = "exit"
    /\ UNCHANGED <<grid, scratch_grid, lockvars, chanvars, elapsed, spc, snap,
                   editvars, sigvars, libvars>>

Next ==
    \/ Tick
    \/ S_TryRecvOk \/ S_RecvOk \/ S_RecvErr \/ S_BeginStep \/ S_Idle
    \/ S_Disconnected \/ S_AcqRead \/ S_NextGeneration \/ S_AcqWrite
    \/ S_Swap \/ S_Stamp
    \/ M_Exit \/ M_Send \/ M_NoKey \/ M_AcqWrite \/ M_SetCell \/ M_AcqRead
    \/ M_Frame \/ M_Drop \/ M_Join

Spec == Init /\ [][Next]_vars

(***************************************************************************)
(* Scheduling.  Both threads are live OS threads: the simulation thread    *)
(* takes every step it can, the main thread finishes an edit or a frame it *)
(* has begun, and time passes.  A request for the lock that can be granted *)
(* again and again is granted (strong fairness): main drops its read guard *)
(* at the end of every loop body, a waiting writer is not overtaken for    *)
(* ever by new readers, and the scheduler drops its write guard with the   *)
(* swap statement.  What the user does (quit, Space, the mouse)            *)
(* is not forced.  Progress does not depend on which cells are edited, so  *)
(* the pointer stays on one cell here.                                     *)
(***************************************************************************)
Fairness ==
    /\ WF_vars(Tick)
    /\ WF_vars(S_TryRecvOk)
    /\ WF_vars(S_RecvOk)
    /\ WF_vars(S_RecvErr)
    /\ WF_vars(S_BeginStep)
    /\ WF_vars(S_Disconnected)
    /\ SF_vars(S_AcqRead)
    /\ WF_vars(S_NextGeneration)
    /\ SF_vars(S_AcqWrite)
    /\ WF_vars(S_Swap)
    /\ WF_vars(S_Stamp)
    /\ WF_vars(M_SetCell)
    /\ SF_vars(M_AcqRead)
    /\ WF_vars(M_Frame)

FairSpec == InitStill /\ [][Next]_vars /\ Fairness

(***************************************************************************)
(* A failing write holder.  Nothing main.rs runs under the write guard can *)
(* panic (set_cell of LifeGrid and mem::swap do not), so the failure is    *)
(* injected: the holder unwinds with the guard alive, which poisons the    *)
(* RwLock.  Every acquisition of main.rs goes through .expect("Poisoned"). *)
(***************************************************************************)
\* the simulation thread fails while it holds the write guard
F_SimFails ==
    /\ spc = "swap"
    /\ poisoned' = TRUE
    /\ writers' = writers \ {SIM}
    /\ spc' = "failed"
    /\ UNCHANGED <<grid, scratch_grid, readers, chanvars, elapsed, mpc, snap,
                   editvars, sigvars, libvars>>

\* the main thread fails while it holds the write guard; unwinding drops
\* the Sender
F_MainFails ==
    /\ mpc = "edit"
    /\ poisoned' = TRUE
    /\ writers' = writers \ {MAIN}
    /\ pause_tx' = FALSE
    /\ mpc' = "failed"
    /\ UNCHANGED <<grid, scratch_grid, readers, pause_chan, elapsed, spc, snap,
                   editvars, sigvars, libvars>>

\* grid.read() returns Err(PoisonError): expect panics
S_AcqReadPoisoned ==
    /\ spc = "read"
    /\ ~ExpectOk
    /\ CanRead(SIM)
    /\ spc' = "panicked"
    /\ UNCHANGED <<grid, scratch_grid, lockvars, chanvars, elapsed, mpc, snap,
                   editvars, sigvars, libvars>>

\* grid.write() returns Err(PoisonError): expect panics
S_AcqWritePoisoned ==
    /\ spc = "write"
    /\ ~ExpectOk
    /\ CanWrite(SIM)
    /\ spc' = "panicked"
    /\ UNCHANGED <<grid, scratch_grid, lockvars, chanvars, elapsed, mpc, snap,
                   editvars, sigvars, libvars>>

\* curr.write() returns Err(PoisonError): expect panics; unwinding drops
\* the Sender
M_AcqWritePoisoned ==
    /\ mpc = "mouse"
    /\ ~ExpectOk
    /\ CanWrite(MAIN)
    /\ pause_tx' = FALSE
    /\ mpc' = "panicked"
    /\ UNCHANGED <<grid, scratch_grid, lockvars, pause_chan, elapsed, spc, snap,
                   editvars, sigvars, libvars>>

\* curr.read() returns Err(PoisonError): expect panics
M_AcqReadPoisoned ==
    /\ mpc \in {"mouse", "render"}
    /\ ~ExpectOk
    /\ CanRead(MAIN)
    /\ pause_tx' = FALSE
    /\ mpc' = "panicked"
    /\ UNCHANGED <<grid, scratch_grid, lockvars, pause_chan, elapsed, spc, snap,
                   editvars, sigvars, libvars>>

\* pause_tx.send(()) returns Err(SendError), the Receiver being gone:
\* unwrap panics
M_SendFails ==
    /\ mpc = "top"
    /\ ~ReceiverAlive
    /\ spc \notin Stopped
    /\ pause_tx' = FALSE
    /\ mpc' = "send_failed"
    /\ UNCHANGED <<grid, scratch_grid, lockvars, pause_chan, elapsed, spc, snap,
                   editvars, sigvars, libvars>>

\* join() returns Err, the simulation thread having panicked: unwrap panics
M_JoinFails ==
    /\ mpc = "join"
    /\ spc \in {"failed", "panicked"}
    /\ mpc' = "join_failed"
    /\ UNCHANGED <<grid, scratch_grid, lockvars, chanvars, elapsed, spc, snap,
                   editvars, sigvars, libvars>>

NextFault ==
    \/ Next
    \/ F_SimFails \/ F_MainFails
    \/ S_AcqReadPoisoned \/ S_AcqWritePoisoned
    \/ M_AcqWritePoisoned \/ M_AcqReadPoisoned
    \/ M_SendFails \/ M_JoinFails

SpecFault == Init /\ [][NextFault]_vars

(***************************************************************************)
(* lib.rs on its own: operations applied to an arbitrary W x H grid with   *)
(* coordinates in and out of range.                                        *)
(***************************************************************************)
\* coordinates up to two past the last column and row
Xs == 0 .. W + 1
Ys == 0 .. H + 1

InitGrid ==
    /\ InitSys
    /\ mouse = MousePos
    /\ g \in Grids(W, H)
    /\ op = NoOp

\* g.set_cell(x, y, v)
G_SetCell ==
    /\ \E x \in Xs, y \in Ys, v \in BOOLEAN :
          /\ g' = set_cell(g, x, y, v)
          /\ op' = [name |-> "set_cell", x |-> x, y |-> y, v |-> v,
                    before |-> g, result |-> FALSE, count |-> 0,
                    counts |-> << >>, other |-> DefaultGrid(W, H)]
    /\ UNCHANGED <<grid, scratch_grid, lockvars, chanvars, elapsed, spc, mpc,
                   snap, editvars, sigvars, at_close, buffer, mouse>>

\* g.is_alive(x, y)
G_IsAlive ==
    /\ \E x \in Xs, y \in Ys :
          op' = [name |-> "is_alive", x |-> x, y |-> y, v |-> FALSE,
                 before |-> g, result |-> is_alive(g, x, y), count |-> 0,
                 counts |-> << >>, other |-> DefaultGrid(W, H)]
    /\ UNCHANGED <<grid, scratch_grid, lockvars, chanvars, elapsed, spc, mpc,
                   snap, editvars, sigvars, at_close, buffer, mouse, g>>

NextGrid == G_SetCell \/ G_IsAlive

SpecGrid == InitGrid /\ [][NextGrid]_vars

(***************************************************************************)
(* The Life trait on its own: number_of_neighbors and next_generation      *)
(* applied once to an arbitrary LW x LH grid.                              *)
(***************************************************************************)
\* the grid with every cell alive
FullGrid(w, h) == [y \in 0 .. h - 1 |-> [x \in 0 .. w - 1 |-> TRUE]]

\* the grid with every cell flipped
Flipped(a) == [y \in DOMAIN a |-> [x \in DOMAIN a[y] |-> ~a[y][x]]]

\* contents `other` may hold when next_generation is called: all dead as
\* LifeGrid::default leaves it, all alive, those of self, and self flipped
Others(self) ==
    {DefaultGrid(width(self), height(self)), FullGrid(width(self), height(self)),
     self, Flipped(self)}

InitLife ==
    /\ InitSys
    /\ mouse = MousePos
    /\ g \in Grids(LW, LH)
    /\ op = NoOp

\* g.number_of_neighbors(x, y) for every cell (x, y) of the grid
L_NumberOfNeighbors ==
    /\ op.name = "none"
    /\ op' = [NoOp EXCEPT !.name = "number_of_neighbors",
                          !.counts = [y \in 0 .. LH - 1 |-> [x \in 0 .. LW - 1 |->
                                         number_of_neighbors(g, x, y)]]]
    /\ UNCHANGED <<grid, scratch_grid, lockvars, chanvars, elapsed, spc, mpc,
                   snap, editvars, sigvars, at_close, buffer, mouse, g>>

\* g.next_generation(other): &self is g, &mut other held `before`
L_NextGeneration ==
    /\ op.name = "none"
    /\ \E other \in Others(g) :
          op' = [NoOp EXCEPT !.name = "next_generation", !.before = other,
                             !.other = next_generation(g, other)]
    /\ UNCHANGED <<grid, scratch_grid, lockvars, chanvars, elapsed, spc, mpc,
                   snap, editvars, sigvars, at_close, buffer, mouse, g>>

NextLife == L_NumberOfNeighbors \/ L_NextGeneration

SpecLife == InitLife /\ [][NextLife]_vars

(***************************************************************************)
(* Generations of a horizontal blinker: three live cells in a row on an    *)
(* otherwise dead grid, at least one dead row and column away from every   *)
(* edge.  Each generation is computed into the second grid and the two are *)
(* exchanged, as sim_task does.                                            *)
(***************************************************************************)
\* the w x h grid whose live cells are (cx - 1, cy), (cx, cy), (cx + 1, cy)
Blinker(w, h, cx, cy) ==
    [y \in 0 .. h - 1 |-> [x \in 0 .. w - 1 |->
        y = cy /\ x \in cx - 1 .. cx + 1]]

InitBlinker ==
    /\ InitSys
    /\ mouse = MousePos
    /\ \E w \in 5 .. MaxBW, h \in 3 .. MaxBH :
          \E cx \in 2 .. w - 3, cy \in 1 .. h - 2 :
             /\ g = Blinker(w, h, cx, cy)
             /\ op = [NoOp EXCEPT !.name = "blinker", !.x = cx, !.y = cy,
                                  !.before = g, !.other = DefaultGrid(w, h)]

\* one generation: g.next_generation(other), then the two are exchanged
B_Generation ==
    /\ op.count < MaxGen
    /\ g' = next_generation(g, op.other)
    /\ op' = [op EXCEPT !.name = "generation", !.count = @ + 1, !.other = g]
    /\ UNCHANGED <<grid, scratch_grid, lockvars, chanvars, elapsed, spc, mpc,
                   snap, editvars, sigvars, at_close, buffer, mouse>>

NextBlinker == B_Generation

SpecBlinker == InitBlinker /\ [][NextBlinker]_vars

(***************************************************************************)
(* Properties.                                                             *)
(***************************************************************************)
SwapStep == spc = "swap" /\ spc' = "stamp"
GenStep == spc = "gen" /\ spc' = "write"
StampStep == spc = "stamp" /\ spc' = "poll"
BeginStep == spc = "poll" /\ spc' = "read"
FrameStep == mpc = "frame" /\ mpc' = "top"
EditStep == mpc = "edit" /\ mpc' = "render"

\* C1: write access to the shared grid is held by at most one thread and
\* never together with any other read or write access, while read access
\* may be shared; a thread holds access exactly while it is at the place in
\* its code where the guard is alive.
C1_MutualExclusion ==
    /\ Cardinality(writers) <= 1
    /\ writers # {} => readers = {}
    /\ SIM \in readers <=> spc = "gen"
    /\ SIM \in writers <=> spc = "swap"
    /\ MAIN \in readers <=> mpc = "frame"
    /\ MAIN \in writers <=> mpc = "edit"

\* both threads hold read access at once
C1_Witness == readers = {SIM, MAIN}

\* C2: once the sender is dropped the scheduler eventually returns, whether
\* it was Running or Paused and however many signals were still queued.
C2_ClosedLeadsToStopped == (~pause_tx) ~> (spc \in Stopped)

\* the scheduler has returned after a close that found it Paused with
\* signals still queued
C2_Witness ==
    /\ spc \in Stopped
    /\ at_close.state \in Paused
    /\ at_close.queued = MaxChan

\* C3 as stated: after a pause signal has been sent (an odd number of
\* toggles) and before the resume signal is sent, no swap changes the
\* shared grid.
C3_NoSwapAfterPauseSent == [][(sent_odd /\ SwapStep) => grid' = grid]_vars

\* C3 as amended: after a pause signal has been sent and before the resume
\* signal is sent no generation step begins, and the only swap that can
\* still happen is the one of a step that was already in flight when the
\* pause signal was sent; once the scheduler is Paused it holds no access.
C3_NoStepBeginsAfterPauseSent ==
    [][/\ sent_odd => ~BeginStep
       /\ (sent_odd /\ SwapStep) => inflight
       /\ (sent_odd /\ spc \in Paused) => (grid' = grid \/ mpc = "edit")]_vars

\* the scheduler is Paused, the resume signal is not sent, and the step has
\* been overdue for the longest time the clock shows
C3_Witness ==
    /\ sent_odd
    /\ spc \in Paused
    /\ pause_chan = 0
    /\ elapsed = MaxElapsed
    /\ Intervals * SIM_STEP_TIME <= elapsed

\* C4: after a resume signal is sent to a Paused scheduler, and while no
\* further signal is sent and the channel stays open, a generation swap
\* eventually happens, and a second one does not happen before a whole step
\* interval has passed since the resume signal.
C4_OneSwapAfterResume ==
    /\ [](to_paused /\ swaps >= 2 => since_signal >= SIM_STEP_TIME)
    /\ (to_paused /\ pause_tx) ~> (swaps >= 1 \/ ~to_paused \/ ~pause_tx)

\* one swap has happened since the resume signal, less than an interval ago
C4_Witness ==
    /\ to_paused
    /\ swaps = 1
    /\ since_signal < SIM_STEP_TIME
    /\ spc = "poll"

\* C5: a step reads the grid under read access and computes the next
\* generation of what it read into scratch; the swap, under write access,
\* makes the current grid that next generation and leaves in scratch what
\* the current grid held just before; then the elapsed time is reset.
C5_StepCycle ==
    [][/\ GenStep => /\ SIM \in readers
                     /\ writers = {}
                     /\ scratch_grid' = next_generation(grid, DefaultGrid(W, H))
                     /\ grid' = grid
       /\ SwapStep => /\ writers = {SIM}
                      /\ readers = {}
                      /\ grid' = next_generation(snap, DefaultGrid(W, H))
                      /\ scratch_grid' = grid
       /\ StampStep => elapsed' = 0]_vars

\* just after a swap that put a live generation in place of a different
\* live grid
C5_Witness ==
    /\ spc = "stamp"
    /\ grid # DefaultGrid(W, H)
    /\ scratch_grid # DefaultGrid(W, H)
    /\ grid # scratch_grid

\* C6: a swap that follows an edit made after the step's read gives the
\* edited cell the value computed from the snapshot taken before the edit,
\* with mutual exclusion intact; the edit is lost when that value differs.
C6_SwapIgnoresWindowEdit ==
    [][(SwapStep /\ window_edit.some) =>
          /\ is_alive(grid', window_edit.x, window_edit.y)
               = is_alive(next_generation(snap, DefaultGrid(W, H)),
                          window_edit.x, window_edit.y)
          /\ is_alive(grid, window_edit.x, window_edit.y) = window_edit.v
          /\ C1_MutualExclusion]_vars

\* the swap has just overwritten an edit made between its read and itself
C6_Witness == lost_edit /\ spc = "stamp"

\* C7: the scheduler starts Running, is always Running, Paused or Stopped,
\* and once Stopped it stays Stopped, holds no access to the grid and the
\* grids no longer change.
C7_StateMachine ==
    /\ spc \in Running
    /\ [][/\ spc \in Running \cup Paused \cup Stopped
          /\ spc' \in Running \cup Paused \cup Stopped
          /\ (spc \in Running /\ spc' \in Paused) => pause_chan' = pause_chan - 1
          /\ spc' \in Stopped => ~pause_tx /\ pause_chan = 0
          /\ spc \in Stopped =>
                /\ spc' \in Stopped
                /\ SIM \notin readers' \cup writers'
                /\ grid' = grid
                /\ scratch_grid' = scratch_grid]_vars

\* the scheduler has stopped after having been through a swap
C7_Witness == spc \in Stopped /\ at_close.state = "swap"

\* C8: the interactive loop ends, then the sender is dropped, then main
\* waits for the simulation thread, and main returns only once sim_task has
\* returned and holds no access to the grid.
C8_Lifecycle ==
    /\ [](/\ mpc = "exit" => spc \in Stopped /\ SIM \notin readers \cup writers
          /\ mpc \in {"join", "exit"} <=> ~pause_tx
          /\ spc \in Stopped => ~pause_tx)
    /\ [][/\ mpc' = "drop" => mpc \in {"top", "drop"}
          /\ mpc' = "join" => mpc \in {"drop", "join"}
          /\ mpc' = "exit" => mpc \in {"join", "exit"}
          /\ mpc \in {"drop", "join", "exit"} => mpc' \in {"drop", "join", "exit"}]_vars

\* main has returned after a close that found a step in flight
C8_Witness == mpc = "exit" /\ at_close.state \in InFlight

\* C9: once a holder of write access has failed while holding it, no thread
\* acquires read or write access again and the grids are not touched: a
\* thread that asks for access panics instead.
C9_PoisonIsFatal ==
    [][poisoned =>
          /\ poisoned'
          /\ readers' \subseteq readers
          /\ writers' \subseteq writers
          /\ grid' = grid
          /\ scratch_grid' = scratch_grid
          /\ (spc \in {"read", "write"} /\ spc' # spc) => spc' = "panicked"
          /\ (mpc \in {"mouse", "render"} /\ mpc' # mpc) => mpc' = "panicked"]_vars

\* the simulation thread failed holding the write guard and the main
\* thread's next acquisition panicked
C9_Witness == poisoned /\ spc = "failed" /\ mpc = "panicked"

\* C10: out of range (x >= W or y >= H) is_alive is false and set_cell
\* leaves the grid as it was; in range set_cell(x, y, v) makes the cell v
\* and changes no other cell.
C10_Bounds ==
    LET out == op.x >= W \/ op.y >= H
    IN  /\ (op.name = "is_alive" /\ out) => op.result = FALSE
        /\ (op.name = "is_alive" /\ ~out) => op.result = g[op.y][op.x]
        /\ (op.name = "set_cell" /\ out) => g = op.before
        /\ (op.name = "set_cell" /\ ~out) =>
              /\ is_alive(g, op.x, op.y) = op.v
              /\ g[op.y][op.x] = op.v
              /\ \A y \in 0 .. H - 1, x \in 0 .. W - 1 :
                    (x # op.x \/ y # op.y) => g[y][x] = op.before[y][x]
        /\ g \in Grids(W, H)

\* set_cell(W, H - 1, TRUE), one column past the last, was applied to a
\* grid whose cell (0, H - 1) is dead
C10_Witness ==
    /\ op.name = "set_cell"
    /\ op.x = W
    /\ op.y = H - 1
    /\ op.v
    /\ ~op.before[H - 1][0]

\* the live cells of `a` at Chebyshev distance exactly 1 of (x, y)
LiveAround(a, x, y) ==
    {p \in (0 .. width(a) - 1) \X (0 .. height(a) - 1) :
        /\ Max(Abs(p[1] - x), Abs(p[2] - y)) = 1
        /\ a[p[2]][p[1]]}

\* the grid whose only live cell is (x, y)
OnlyAlive(w, h, x, y) == [b \in 0 .. h - 1 |-> [a \in 0 .. w - 1 |-> a = x /\ b = y]]

\* C11: for every cell of every grid the neighbor count is the number of
\* live cells of the grid at Chebyshev distance exactly 1: it lies between
\* 0 and 8, it does not count the cell itself, it counts no cell twice and
\* it does not wrap around the edges; with only (1, 1) alive the count at
\* (0, 0) is 1.
C11_NeighborCount ==
    op.name = "number_of_neighbors" =>
       /\ \A x \in 0 .. LW - 1, y \in 0 .. LH - 1 :
             /\ op.counts[y][x] = Cardinality(LiveAround(g, x, y))
             /\ op.counts[y][x] \in 0 .. 8
             /\ g = OnlyAlive(LW, LH, x, y) => op.counts[y][x] = 0
       /\ g = OnlyAlive(LW, LH, 1, 1) => op.counts[0][0] = 1

\* the count at the live corner (0, 0) is 1 with (1, 1) alive and live
\* cells in the last column of row 0 and the last row of column 0
C11_Witness ==
    /\ op.name = "number_of_neighbors"
    /\ g[0][0] /\ g[1][1] /\ g[0][LW - 1] /\ g[LH - 1][0]
    /\ ~g[0][1] /\ ~g[1][0]
    /\ op.counts[0][0] = 1

\* C12: after self.next_generation(other) every cell (x, y) of other is
\* alive if self has 3 live neighbors there, equal to self's cell if it has
\* 2, and dead otherwise, the counts being those of self as it was before
\* the call.
C12_Rule ==
    op.name = "next_generation" =>
       \A x \in 0 .. LW - 1, y \in 0 .. LH - 1 :
          LET n == Cardinality(LiveAround(g, x, y))
          IN  /\ n = 3 => op.other[y][x]
              /\ n = 2 => op.other[y][x] = g[y][x]
              /\ n \notin {2, 3} => ~op.other[y][x]

\* one call in which a dead cell with 3 live neighbors is born, a live
\* cell with 2 survives, a dead cell with 2 stays dead and a live cell with
\* more than 3 dies
C12_Witness ==
    /\ op.name = "next_generation"
    /\ \E x \in 0 .. LW - 1, y \in 0 .. LH - 1 :
          ~g[y][x] /\ Cardinality(LiveAround(g, x, y)) = 3 /\ op.other[y][x]
    /\ \E x \in 0 .. LW - 1, y \in 0 .. LH - 1 :
          g[y][x] /\ Cardinality(LiveAround(g, x, y)) = 2 /\ op.other[y][x]
    /\ \E x \in 0 .. LW - 1, y \in 0 .. LH - 1 :
          ~g[y][x] /\ Cardinality(LiveAround(g, x, y)) = 2 /\ ~op.other[y][x]
    /\ \E x \in 0 .. LW - 1, y \in 0 .. LH - 1 :
          g[y][x] /\ Cardinality(LiveAround(g, x, y)) > 3 /\ ~op.other[y][x]

\* C13: next_generation leaves self as it was and rewrites every cell of
\* other: what other holds afterwards is the same whatever it held before,
\* so nothing of a stale scratch grid shows in the next generation.
C13_OtherFullyRewritten ==
    [][op'.name = "next_generation" =>
          /\ g' = g
          /\ op'.other \in Grids(LW, LH)
          /\ op'.other = next_generation(g, DefaultGrid(LW, LH))]_vars

\* other held live cells before the call, and one of them, which is dead
\* in self too, is dead afterwards
C13_Witness ==
    /\ op.name = "next_generation"
    /\ op.before # DefaultGrid(LW, LH)
    /\ op.before # g
    /\ \E x \in 0 .. LW - 1, y \in 0 .. LH - 1 :
          op.before[y][x] /\ ~g[y][x] /\ ~op.other[y][x]

\* C14: a horizontal blinker kept away from the edges has period 2: its
\* next generation differs from it and the generation after that is the
\* blinker again.
C14_BlinkerPeriod2 ==
    /\ op.name = "generation" /\ op.count % 2 = 1 =>
          /\ g # op.before
          /\ g = [y \in DOMAIN g |-> [x \in DOMAIN g[y] |->
                     x = op.x /\ y \in op.y - 1 .. op.y + 1]]
    /\ op.name = "generation" /\ op.count % 2 = 0 => g = op.before

\* two generations of a blinker with exactly one dead row and one dead
\* column between it and each edge
C14_Witness ==
    /\ op.name = "generation"
    /\ op.count = 2
    /\ width(g) = 5 /\ height(g) = 3
    /\ g = Blinker(5, 3, 2, 1)

\* C15: a frame is produced under one read acquisition held for the whole
\* frame: entry y * W + x of the buffer is full intensity exactly when cell
\* (x, y) is alive in the grid, which does not change between the
\* acquisition and the end of the frame, and producing it leaves the grid
\* as it was.
C15_FrameIsOneGridState ==
    [][/\ FrameStep =>
             /\ MAIN \in readers
             /\ writers = {}
             /\ grid' = grid
             /\ DOMAIN buffer' = 0 .. W * H - 1
             /\ \A x \in 0 .. W - 1, y \in 0 .. H - 1 :
                   buffer'[y * W + x] = IF grid[y][x] THEN 1 ELSE 0
       /\ mpc = "frame" => grid' = grid
       /\ buffer' # buffer => FrameStep]_vars

\* a frame has been shown with cell (1, 0) alive and cell (0, 1) dead, and
\* the grid has changed since
C15_Witness ==
    /\ mpc = "top"
    /\ buffer[1] = 1
    /\ buffer[W] = 0
    /\ ~grid[0][1]

\* C16: a step begins only when at least one step interval has passed
\* since the last completed generation or since the start, so that two
\* consecutive swaps are at least one interval apart, across a pause and a
\* resume too.
C16_StepsAnIntervalApart ==
    [][/\ BeginStep => SIM_STEP_TIME <= elapsed /\ SIM_STEP_TIME <= since_swap
       /\ SwapStep => SIM_STEP_TIME <= since_swap
       /\ elapsed' < elapsed => StampStep]_vars

\* the second swap since a resume has just happened
C16_Witness ==
    /\ spc = "stamp"
    /\ to_paused
    /\ swaps = 2
    /\ since_swap = 0

\* C17 as stated: from the moment the sender is dropped the scheduler takes
\* no read of the shared grid for a step.
C17_NoReadAfterClose == [][~pause_tx => ~(spc = "read" /\ spc' = "gen")]_vars

\* C17 as amended: once the sender is dropped no generation step begins,
\* although the interval has elapsed, signals are still queued or the
\* scheduler was released from Paused by the disconnection; only the step
\* that had passed its try_recv when the sender was dropped still takes its
\* read, if it had not yet, and its swap.
C17_NoStepAfterClose ==
    [][~pause_tx =>
          /\ ~BeginStep
          /\ GenStep => at_close.state \in {"read", "gen"}
          /\ SwapStep => at_close.state \in InFlight]_vars

\* the disconnection has released a Paused scheduler that had signals
\* queued, and the step is overdue
C17_Witness ==
    /\ ~pause_tx
    /\ spc = "poll"
    /\ pause_chan = 0
    /\ at_close.state \in Paused
    /\ at_close.queued > 0
    /\ StepDue

\* C18: neither thread asks for access to the grid while it holds access,
\* the scheduler holds none while Paused, and every acquisition asked for
\* is eventually granted.
C18_NoDeadlock ==
    /\ [](/\ spc \in {"read", "write"} \cup Paused => SIM \notin readers \cup writers
          /\ mpc \in {"mouse", "render"} => MAIN \notin readers \cup writers)
    /\ (spc = "read") ~> (spc = "gen")
    /\ (spc = "write") ~> (spc = "swap")
    /\ (mpc = "render") ~> (mpc = "frame")
    /\ (mpc = "mouse") ~> (mpc # "mouse" \/ CanWrite(MAIN))

\* the scheduler waits for write access while main holds its frame's read
\* access
C18_Witness ==
    /\ spc = "write"
    /\ mpc = "frame"
    /\ readers = {MAIN}

\* C19: every signal sent is received exactly once and flips the scheduler
\* between Running and Paused: while the sender is alive the scheduler is
\* Paused exactly when it has received an odd number of signals, the
\* signals received and queued add up to those sent, and a queued signal
\* is eventually received.
C19_TogglesConserved ==
    /\ [](/\ pause_tx => (spc \in Paused <=> consumed_odd)
          /\ consumed_odd <=> (sent_odd # (pause_chan % 2 = 1)))
    /\ [][/\ pause_chan' # pause_chan =>
                pause_chan' \in {pause_chan - 1, pause_chan + 1}
          /\ pause_chan' = pause_chan - 1 =>
                /\ consumed_odd' # consumed_odd
                /\ sent_odd' = sent_odd
                /\ (spc \in Paused) # (spc' \in Paused)
          /\ pause_chan' = pause_chan + 1 =>
                /\ sent_odd' # sent_odd
                /\ consumed_odd' = consumed_odd
          /\ (pause_tx /\ (spc \in Paused) # (spc' \in Paused)) =>
                pause_chan' = pause_chan - 1]_vars
    /\ (pause_chan > 0 /\ consumed_odd) ~> ~consumed_odd
    /\ (pause_chan > 0 /\ ~consumed_odd) ~> consumed_odd

\* the scheduler is Paused on the first of three signals, the other two
\* being queued
C19_Witness ==
    /\ pause_tx
    /\ spc \in Paused
    /\ consumed_odd
    /\ sent_odd
    /\ pause_chan = 2

\* C20: an edit applied outside the span from a step's read to its swap
\* stays in the current grid until the next swap or a later edit of the
\* same cell, is in the snapshot the next step reads, and the swap puts in
\* place the generation computed from that snapshot; at a swap the grid
\* differs from the snapshot only by edits applied inside the span.
C20_EarlyEditReachesStep ==
    /\ [](early_edit.some =>
             is_alive(grid, early_edit.x, early_edit.y) = early_edit.v)
    /\ [][/\ (GenStep /\ early_edit.some) =>
                is_alive(snap', early_edit.x, early_edit.y) = early_edit.v
          /\ (SwapStep /\ early_edit.some) =>
                /\ is_alive(snap, early_edit.x, early_edit.y) = early_edit.v
                /\ grid' = next_generation(snap, DefaultGrid(W, H))
          /\ (SwapStep /\ grid # snap) => window_edit.some
          /\ grid' # grid => SwapStep \/ EditStep]_vars

\* the first step after a resume has read a snapshot in which cell (1, 0)
\* is alive by the last edit, applied before the step read
C20_Witness ==
    /\ spc = "write"
    /\ to_paused
    /\ swaps = 0
    /\ early_edit.some
    /\ early_edit.v
    /\ early_edit.x = 1
    /\ snap[0][1]
    /\ snap = grid

====
